---- MODULE Spec2Model ----
(***************************************************************************)
(* Model of proxy/limits/limits.go: SetupFDLimits(wantFDs) and the two     *)
(* kernel calls it makes, getrlimit and setrlimit on RLIMIT_NOFILE.        *)
(*                                                                         *)
(* The kernel's limit pair is the only shared state.  Every kernel call is *)
(* one atomic step; the local computation that follows a call (the tests   *)
(* of lines 43 and 56, building the next pair) belongs to the same step.   *)
(* A kernel call can always fail (the code tests err after each of them);  *)
(* it can succeed only where the kernel's rules allow it.                  *)
(***************************************************************************)
EXTENDS Naturals, Sequences, FiniteSets

\* Largest descriptor count of the model: limits and wantFDs range over 0..MaxFD.
MaxFD == 3

\* Invocations of SetupFDLimits in one behaviour.
MaxCalls == 3

\* The callers of SetupFDLimits: the bootstrap sequence, and a second caller
\* for the overlapping use the code is not written for.
Main == "a"

Procs == {Main, "b"}

Limit == 0 .. MaxFD

\* syscall.Rlimit: a soft limit Cur and a hard limit Max.
Rlimit == [Cur : Limit, Max : Limit]

\* The pairs a kernel can hold: the soft limit never exceeds the hard limit.
KernelRlimit == {r \in Rlimit : r.Cur <= r.Max}

\* &syscall.Rlimit{}: the zero value.
ZeroRlimit == [Cur |-> 0, Max |-> 0]

VARIABLES
    kernel,      \* the process's RLIMIT_NOFILE pair, held by the kernel
    privileged,  \* whether the process holds CAP_SYS_RESOURCE
    pc,          \* per caller: "idle", "get", "sethard", "setsoft"
    wantFDs,     \* per caller: the argument of the invocation
    rlim,        \* per caller: the local rlim, as queried
    err,         \* per caller: "none" while running, else "nil", "query", "raise"
    calls,       \* per caller: the kernel calls of the invocation, in order
    entry,       \* per caller: the kernel pair when the invocation began
    prev,        \* per caller: the invocation that returned last before this one began
    last,        \* the invocation that returned last
    overlapped,  \* whether some invocation began while another was running
    ensured,     \* the largest wantFDs an invocation returned nil for
    started      \* the number of invocations begun

vars == <<kernel, privileged, pc, wantFDs, rlim, err, calls, entry, prev,
          last, overlapped, ensured, started>>

NoCall == [want |-> 0, err |-> "none"]

Max2(a, b) == IF a >= b THEN a ELSE b

----------------------------------------------------------------------------
(* The kernel *)

\* setrlimit's rules: the soft limit is at most the hard limit; an unprivileged
\* process may not raise its hard limit, a privileged one may change both freely.
KernelAllows(k, new, priv) ==
    /\ new.Cur <= new.Max
    /\ (new.Max <= k.Max \/ priv)

\* The results syscallSetrlimit can give: failure always, success where allowed.
SetrlimitOutcomes(k, new, priv) ==
    IF KernelAllows(k, new, priv) THEN {TRUE, FALSE} ELSE {FALSE}

\* The results syscallGetrlimit can give.
GetrlimitOutcomes == {TRUE, FALSE}

----------------------------------------------------------------------------
(* SetupFDLimits: the decisions of the code *)

\* line 39: the query's error ends the invocation.
QueryFailedIgnored(ok) == FALSE

QueryFailed(ok) == ~ok

\* line 43: the soft limit already suffices.
NothingToDoStrict(r, want) == r.Cur > want

NothingToDoNever(r, want) == FALSE

NothingToDoByHard(r, want) == r.Max >= want

NothingToDo(r, want) == r.Cur >= want

\* line 56: the hard limit is below what is requested.
HardTooLow(r, want) == r.Max < want

\* lines 59-61: rlim2, the pair raising both limits.
Rlim2(want) == [Cur |-> want, Max |-> want]

\* line 68: rlim with its soft limit set, its Max as queried.
SoftRaiseKeepsCur(r, want) == r

SoftRaiseLowersMax(r, want) == [Cur |-> want, Max |-> want]

SoftRaise(r, want) == [r EXCEPT !.Cur = want]

\* Where control goes after a successful query (lines 43-68).
AfterQuery(r, want) ==
    IF NothingToDo(r, want) THEN "done"
    ELSE IF HardTooLow(r, want) THEN "sethard"
    ELSE "setsoft"

\* lines 62-65: the privileged call returns nil on success, falls back otherwise.
HardRaiseReturnsAlways(ok) == TRUE

HardRaiseReturnsNever(ok) == FALSE

HardRaiseReturns(ok) == ok

\* lines 69-74: the result of the soft-limit-only call.
SoftRaiseErrAlways(ok) == "raise"

SoftRaiseErrNever(ok) == "nil"

SoftRaiseErr(ok) == IF ok THEN "nil" ELSE "raise"

----------------------------------------------------------------------------
(* Actions *)

Init ==
    /\ kernel \in KernelRlimit
    /\ privileged \in BOOLEAN
    /\ pc = [p \in Procs |-> "idle"]
    /\ wantFDs = [p \in Procs |-> 0]
    /\ rlim = [p \in Procs |-> ZeroRlimit]
    /\ err = [p \in Procs |-> "none"]
    /\ calls = [p \in Procs |-> <<>>]
    /\ entry = [p \in Procs |-> ZeroRlimit]
    /\ prev = [p \in Procs |-> NoCall]
    /\ last = NoCall
    /\ overlapped = FALSE
    /\ ensured = 0
    /\ started = 0

\* What every return does to the history.
Return(p, e) ==
    /\ pc' = [pc EXCEPT ![p] = "idle"]
    /\ err' = [err EXCEPT ![p] = e]
    /\ last' = [want |-> wantFDs[p], err |-> e]
    /\ ensured' = IF e = "nil" THEN Max2(ensured, wantFDs[p]) ELSE ensured

\* A kernel call, as the log keeps it.
KernelCall(op, r, ok) == [op |-> op, rl |-> r, ok |-> ok]

Logged(p, op, r, ok) == calls' = [calls EXCEPT ![p] = Append(@, KernelCall(op, r, ok))]

\* Entering SetupFDLimits(want): line 38, rlim := &syscall.Rlimit{}.
Enter(p, want) ==
    /\ pc[p] = "idle"
    /\ started < MaxCalls
    /\ started' = started + 1
    /\ pc' = [pc EXCEPT ![p] = "get"]
    /\ wantFDs' = [wantFDs EXCEPT ![p] = want]
    /\ rlim' = [rlim EXCEPT ![p] = ZeroRlimit]
    /\ err' = [err EXCEPT ![p] = "none"]
    /\ calls' = [calls EXCEPT ![p] = <<>>]
    /\ entry' = [entry EXCEPT ![p] = kernel]
    /\ prev' = [prev EXCEPT ![p] = last]
    /\ UNCHANGED <<kernel, privileged, last, ensured>>

\* An invocation that begins while no other is running.
Call(p) ==
    /\ \A q \in Procs : pc[q] = "idle"
    /\ \E want \in Limit : Enter(p, want)
    /\ UNCHANGED overlapped

\* An invocation that begins while another is running.
CallOverlapping(p) ==
    /\ \E q \in Procs \ {p} : pc[q] # "idle"
    /\ \E want \in Limit : Enter(p, want)
    /\ overlapped' = TRUE

\* lines 39-46, and the test of line 56.  A failed query leaves rlim as it was.
Getrlimit(p) ==
    /\ pc[p] = "get"
    /\ \E ok \in GetrlimitOutcomes :
         LET r == IF ok THEN kernel ELSE rlim[p] IN
         /\ Logged(p, "get", r, ok)
         /\ rlim' = [rlim EXCEPT ![p] = r]
         /\ IF QueryFailed(ok)
            THEN Return(p, "query")
            ELSE IF AfterQuery(r, wantFDs[p]) = "done"
            THEN Return(p, "nil")
            ELSE /\ pc' = [pc EXCEPT ![p] = AfterQuery(r, wantFDs[p])]
                 /\ UNCHANGED <<err, last, ensured>>
    /\ UNCHANGED <<kernel, privileged, wantFDs, entry, prev, overlapped, started>>

\* lines 59-65: the privileged raise of both limits.
SetrlimitHard(p) ==
    /\ pc[p] = "sethard"
    /\ LET rlim2 == Rlim2(wantFDs[p]) IN
       \E ok \in SetrlimitOutcomes(kernel, rlim2, privileged) :
         /\ Logged(p, "set", rlim2, ok)
         /\ kernel' = IF ok THEN rlim2 ELSE kernel
         /\ IF HardRaiseReturns(ok)
            THEN Return(p, "nil")
            ELSE /\ pc' = [pc EXCEPT ![p] = "setsoft"]
                 /\ UNCHANGED <<err, last, ensured>>
    /\ UNCHANGED <<privileged, wantFDs, rlim, entry, prev, overlapped, started>>

\* lines 68-74: the soft-limit-only raise.
SetrlimitSoft(p) ==
    /\ pc[p] = "setsoft"
    /\ LET new == SoftRaise(rlim[p], wantFDs[p]) IN
       \E ok \in SetrlimitOutcomes(kernel, new, privileged) :
         /\ Logged(p, "set", new, ok)
         /\ rlim' = [rlim EXCEPT ![p] = new]
         /\ kernel' = IF ok THEN new ELSE kernel
         /\ Return(p, SoftRaiseErr(ok))
    /\ UNCHANGED <<privileged, wantFDs, entry, prev, overlapped, started>>

\* One caller at a time: the use the code is written for.
Next ==
    \/ Call(Main)
    \/ Getrlimit(Main)
    \/ SetrlimitHard(Main)
    \/ SetrlimitSoft(Main)

Spec == Init /\ [][Next]_vars

\* Callers that may overlap.
NextOverlap ==
    \E p \in Procs :
        \/ Call(p)
        \/ CallOverlapping(p)
        \/ Getrlimit(p)
        \/ SetrlimitHard(p)
        \/ SetrlimitSoft(p)

SpecOverlap == Init /\ [][NextOverlap]_vars

----------------------------------------------------------------------------
(* Vocabulary of the properties *)

IsSet(c) == c.op = "set"

\* The setrlimit calls of p's invocation, in order.
SetCalls(p) == SelectSeq(calls[p], IsSet)

Returned(p) == pc[p] = "idle" /\ err[p] # "none"

\* p's invocation got the limits from the kernel.
Queried(p) == Len(calls[p]) >= 1 /\ calls[p][1].ok

\* The pair p's invocation got from the kernel.
QueriedRlimit(p) == calls[p][1].rl

Pair(cur, max) == [Cur |-> cur, Max |-> max]

----------------------------------------------------------------------------
(* Properties of SetupFDLimits called by one caller at a time (Spec) *)

\* C1: an invocation that returned nil left the kernel's soft limit at or above
\* its wantFDs; every other return is one of the two errors.
C1_NilMeansEnough ==
    \A p \in Procs :
        Returned(p) =>
            /\ err[p] \in {"nil", "query", "raise"}
            /\ err[p] = "nil" => kernel.Cur >= wantFDs[p]

\* A raise was needed, was made, and the invocation returned nil.
C1_Witness ==
    /\ Returned(Main) /\ err[Main] = "nil"
    /\ entry[Main].Cur < wantFDs[Main]
    /\ Len(SetCalls(Main)) = 1
    /\ kernel.Cur = wantFDs[Main]

\* C2: when wantFDs is at most the queried soft limit, the invocation makes no
\* setrlimit call, returns nil, and both limits stay as queried.
C2_NothingToDo ==
    \A p \in Procs :
        (Returned(p) /\ Queried(p) /\ wantFDs[p] <= QueriedRlimit(p).Cur) =>
            /\ SetCalls(p) = <<>>
            /\ err[p] = "nil"
            /\ kernel = QueriedRlimit(p)
            /\ kernel = entry[p]

\* The boundary case wantFDs = current, with a positive limit.
C2_Witness ==
    /\ Returned(Main) /\ Queried(Main)
    /\ wantFDs[Main] = QueriedRlimit(Main).Cur
    /\ wantFDs[Main] > 0
    /\ err[Main] = "nil"

\* C3 as stated: for current < wantFDs <= maximum, exactly one setrlimit call
\* is made, with (wantFDs, queried maximum); the result is nil, the soft limit
\* is wantFDs and the hard limit is unchanged.
C3_SoftRaiseAlwaysSucceeds ==
    \A p \in Procs :
        (Returned(p) /\ Queried(p)
           /\ QueriedRlimit(p).Cur < wantFDs[p]
           /\ wantFDs[p] <= QueriedRlimit(p).Max) =>
            /\ Len(SetCalls(p)) = 1
            /\ SetCalls(p)[1].rl = Pair(wantFDs[p], QueriedRlimit(p).Max)
            /\ err[p] = "nil"
            /\ kernel = Pair(wantFDs[p], QueriedRlimit(p).Max)

\* C3, amended: for current < wantFDs <= maximum, exactly one setrlimit call is
\* made, with (wantFDs, queried maximum), and no privileged one.  If the kernel
\* accepts it the result is nil, the soft limit is wantFDs and the hard limit is
\* unchanged; if the kernel rejects it the result is the raise error and both
\* limits are unchanged.
C3_SoftRaiseOnly ==
    \A p \in Procs :
        (Returned(p) /\ Queried(p)
           /\ QueriedRlimit(p).Cur < wantFDs[p]
           /\ wantFDs[p] <= QueriedRlimit(p).Max) =>
            /\ Len(SetCalls(p)) = 1
            /\ SetCalls(p)[1].rl = Pair(wantFDs[p], QueriedRlimit(p).Max)
            /\ SetCalls(p)[1].ok =>
                 /\ err[p] = "nil"
                 /\ kernel = Pair(wantFDs[p], QueriedRlimit(p).Max)
            /\ ~SetCalls(p)[1].ok =>
                 /\ err[p] = "raise"
                 /\ kernel = QueriedRlimit(p)

\* A soft limit raised strictly below the hard limit, which stays.
C3_Witness ==
    /\ Returned(Main) /\ Queried(Main)
    /\ QueriedRlimit(Main).Cur < wantFDs[Main]
    /\ wantFDs[Main] < QueriedRlimit(Main).Max
    /\ err[Main] = "nil"
    /\ kernel = Pair(wantFDs[Main], QueriedRlimit(Main).Max)

\* C4: when wantFDs exceeds the queried maximum and the privileged call
\* succeeds, the invocation has returned nil with that one setrlimit call,
\* (wantFDs, wantFDs), and both limits equal wantFDs.
C4_HardRaiseReturns ==
    \A p \in Procs :
        (Queried(p) /\ wantFDs[p] > QueriedRlimit(p).Max
           /\ Len(SetCalls(p)) >= 1 /\ SetCalls(p)[1].ok) =>
            /\ Returned(p)
            /\ err[p] = "nil"
            /\ Len(SetCalls(p)) = 1
            /\ SetCalls(p)[1].rl = Pair(wantFDs[p], wantFDs[p])
            /\ kernel = Pair(wantFDs[p], wantFDs[p])

\* A privileged process raised its hard limit.
C4_Witness ==
    /\ Returned(Main) /\ Queried(Main)
    /\ wantFDs[Main] > QueriedRlimit(Main).Max
    /\ err[Main] = "nil"
    /\ kernel.Max > entry[Main].Max

\* C5: when wantFDs exceeds the queried maximum and the privileged call fails,
\* the invocation does not return on that failure: it makes exactly one more
\* setrlimit call, (wantFDs, queried maximum), which the kernel rejects; it
\* returns the raise error and both limits are as queried.
C5_FallbackFails ==
    \A p \in Procs :
        (Queried(p) /\ wantFDs[p] > QueriedRlimit(p).Max
           /\ Len(SetCalls(p)) >= 1 /\ ~SetCalls(p)[1].ok) =>
            /\ SetCalls(p)[1].rl = Pair(wantFDs[p], wantFDs[p])
            /\ Len(SetCalls(p)) = 1 => pc[p] = "setsoft" /\ err[p] = "none"
            /\ Len(SetCalls(p)) > 1 =>
                 /\ Len(SetCalls(p)) = 2
                 /\ SetCalls(p)[2] =
                      KernelCall("set", Pair(wantFDs[p], QueriedRlimit(p).Max), FALSE)
                 /\ Returned(p)
                 /\ err[p] = "raise"
            /\ kernel = QueriedRlimit(p)

\* Both calls were made and failed, in an unprivileged process.
C5_Witness ==
    /\ Returned(Main) /\ Queried(Main)
    /\ ~privileged
    /\ wantFDs[Main] > QueriedRlimit(Main).Max
    /\ Len(SetCalls(Main)) = 2
    /\ err[Main] = "raise"

\* C6: when the query fails the invocation has returned the query error at
\* once, whatever wantFDs is: no setrlimit call, limits unchanged.
C6_QueryFailure ==
    \A p \in Procs :
        (Len(calls[p]) >= 1 /\ ~calls[p][1].ok) =>
            /\ Returned(p)
            /\ err[p] = "query"
            /\ Len(calls[p]) = 1
            /\ kernel = entry[p]

\* A failed query for a wantFDs above the hard limit.
C6_Witness ==
    /\ Returned(Main)
    /\ err[Main] = "query"
    /\ wantFDs[Main] > kernel.Max

\* C7: an invocation that follows one with the same wantFDs that returned nil,
\* and whose query succeeds, makes no setrlimit call, returns nil and leaves
\* the limits as the first one left them.
C7_Idempotent ==
    \A p \in Procs :
        (Returned(p) /\ Queried(p)
           /\ prev[p] = [want |-> wantFDs[p], err |-> "nil"]) =>
            /\ SetCalls(p) = <<>>
            /\ err[p] = "nil"
            /\ kernel = entry[p]

\* A second invocation after a first that had the limit at exactly wantFDs.
C7_Witness ==
    /\ Returned(Main) /\ Queried(Main)
    /\ prev[Main] = [want |-> wantFDs[Main], err |-> "nil"]
    /\ wantFDs[Main] > 0
    /\ kernel.Cur = wantFDs[Main]
    /\ err[Main] = "nil"

\* C8 as stated: the raise error is returned only after a privileged call
\* (wantFDs, wantFDs) was made and failed before the failing soft-limit-only one.
C8_RaiseErrorAfterBoth ==
    \A p \in Procs :
        (Returned(p) /\ err[p] = "raise") =>
            /\ Len(SetCalls(p)) = 2
            /\ SetCalls(p)[1] = KernelCall("set", Pair(wantFDs[p], wantFDs[p]), FALSE)
            /\ ~SetCalls(p)[2].ok

\* C8, amended: the raise error is returned only when the soft-limit-only call
\* (wantFDs, queried maximum) was made last and failed; a privileged call
\* (wantFDs, wantFDs) was made and failed before it exactly when wantFDs exceeds
\* the queried maximum, and otherwise the soft-limit-only call is the only one.
C8_RaiseErrorAfterSoft ==
    \A p \in Procs :
        (Returned(p) /\ err[p] = "raise") =>
            LET sets == SetCalls(p) IN
            /\ Queried(p)
            /\ Len(sets) \in {1, 2}
            /\ sets[Len(sets)] =
                 KernelCall("set", Pair(wantFDs[p], QueriedRlimit(p).Max), FALSE)
            /\ Len(sets) = 2 <=> wantFDs[p] > QueriedRlimit(p).Max
            /\ Len(sets) = 2 =>
                 sets[1] = KernelCall("set", Pair(wantFDs[p], wantFDs[p]), FALSE)

\* The raise error after the soft-limit-only call alone.
C8_Witness ==
    /\ Returned(Main) /\ err[Main] = "raise"
    /\ Len(SetCalls(Main)) = 1
    /\ wantFDs[Main] <= QueriedRlimit(Main).Max

\* C10: no step lowers a limit, so no invocation lowers one and a later
\* invocation with a smaller wantFDs does not undo an earlier raise.
C10_NeverLowers ==
    [][/\ kernel'.Cur >= kernel.Cur
       /\ kernel'.Max >= kernel.Max
       /\ kernel'.Cur >= ensured]_vars

\* A later invocation with a smaller wantFDs returned after an earlier raise.
C10_Witness ==
    /\ Returned(Main) /\ Queried(Main)
    /\ prev[Main].err = "nil"
    /\ prev[Main].want > wantFDs[Main]
    /\ entry[Main].Cur = prev[Main].want
    /\ kernel.Cur = prev[Main].want

----------------------------------------------------------------------------
(* Properties of overlapping callers (SpecOverlap) *)

\* C9: as long as no invocation began while another was running, both limits
\* are at or above every wantFDs an invocation returned nil for; overlapping
\* invocations reach states where they are not (C9_Witness).
C9_SequentialKeepsEnsured ==
    ~overlapped => (kernel.Cur >= ensured /\ kernel.Max >= ensured)

\* An invocation returned nil and a stale setrlimit call of an overlapping one
\* then put the soft limit below its wantFDs.
C9_Witness ==
    /\ overlapped
    /\ \E p \in Procs :
         /\ Returned(p) /\ err[p] = "nil"
         /\ kernel.Cur < wantFDs[p]
    /\ kernel.Cur < ensured

====
